---- MODULE Spec2Model ----
(***************************************************************************)
(* mem-syn: synthesis of a banked memory from an access trace.             *)
(*                                                                         *)
(* The model follows the three paths of main: `synthesize` (solve_trace    *)
(* and the lifting of the solver's answer into a Component), `verify`      *)
(* (Component::vailidate of a parsed description against a trace) and the  *)
(* layout algebra of MemoryLayout, which both paths rest on.               *)
(*                                                                         *)
(* Encodings.  Option<T> is a sequence: None is << >>, Some(x) is <<x>>.   *)
(* A u64/usize value is an integer representative: r >= 0 is the value r,  *)
(* r < 0 is the wrapped value 2^64 + r that a release build produces on    *)
(* underflow.  A debug build panics instead; evaluation takes the build    *)
(* profile b as a parameter.                                               *)
(***************************************************************************)
EXTENDS Integers, Sequences, FiniteSets, TLC

VARIABLES
    cmd,        \* the path taken: "synthesize" | "verify" | "layout" | "parse" | "eval"
    pc,         \* position of main: "start" | "done" | "abort"
    trace,      \* the Trace after parse_trace: [size, bitwidth, trace]; on the
                \* parse path the JSON document given to parse_trace
    model,      \* the solver's answer, one [route, bank] per port (<< >> before)
    comp,       \* the Component (synthesized or parsed), NoComp before
    result,     \* what the command produced
    layout,     \* the MemoryLayout::Range under test (layout path)
    idx,        \* the index / target under test (layout path), the port
                \* value routed (routing path)
    program     \* the TopLevelRoutingProgram under test (routing path)

vars == <<cmd, pc, trace, model, comp, result, layout, idx, program>>

----------------------------------------------------------------------------
(* Bounds of the model *)

MaxSize == 3        \* largest logical memory size of a trace
MaxLines == 1       \* most lines of a trace
MaxFinish == 4      \* largest finish of a Range under test (layout path)
MaxLayoutStride == 3    \* largest stride of a Range under test (layout path)
MaxIdx == 6         \* largest index / target under test (layout path)
MaxRawLines == 3    \* most lines of a trace document (parse path)
MaxRawLen == 2      \* longest line of a trace document (parse path)
MaxOptSize == 2     \* largest size of a trace of two lines (synthesis)
MaxOperand == 2     \* largest operand of a terminal under test (routing path)
MaxPortVal == 3     \* largest port value routed (routing path)

(* Program constants *)

WordBits == 64      \* size_of::<usize>() * 8

----------------------------------------------------------------------------
(* Option *)

None == << >>
Some(x) == <<x>>
IsSome(o) == Len(o) = 1
Unwrap(o) == o[1]

Pow2(n) == 2 ^ n

RECURSIVE BitLen(_)
BitLen(n) == IF n = 0 THEN 0 ELSE 1 + BitLen(n \div 2)

leading_zeros(n) == WordBits - BitLen(n)

bits_required(size) == WordBits - leading_zeros(size) - 1

----------------------------------------------------------------------------
(* Trace *)

trace_size(t) == t.size
trace_bitwidth(t) == t.bitwidth
num_ports(t) == IF Len(t.trace) = 0 THEN 0 ELSE Len(t.trace[1])
trace_bits_required(t) == bits_required(t.size)

\* the filter of normalize: the lines with a present slot, in order
filter_lines(lines) == SelectSeq(lines, LAMBDA x : \E i \in 1 .. Len(x) : IsSome(x[i]))

\* ports_required with the longest line counted one too long
ports_required_one_more(lines) ==
    IF Len(lines) = 0 THEN 0
    ELSE 1 + (CHOOSE n \in {Len(lines[k]) : k \in 1 .. Len(lines)} :
                \A k \in 1 .. Len(lines) : Len(lines[k]) <= n)

\* the longest line, 0 for no line (max().unwrap_or_default())
ports_required(lines) ==
    IF Len(lines) = 0 THEN 0
    ELSE CHOOSE n \in {Len(lines[k]) : k \in 1 .. Len(lines)} :
            \A k \in 1 .. Len(lines) : Len(lines[k]) <= n

\* the padding loop of normalize left out
pad_none(line, n) == line

\* while line.len() < ports_required { line.push(None) }
RECURSIVE pad(_, _)
pad(line, n) == IF Len(line) < n THEN pad(Append(line, None), n) ELSE line

normalize(t) ==
    LET kept == filter_lines(t.trace)
        n == ports_required(kept)
    IN  [size |-> t.size, bitwidth |-> t.bitwidth,
         trace |-> [k \in 1 .. Len(kept) |-> pad(kept[k], n)]]

----------------------------------------------------------------------------
(* MemoryLayout::Range {start, finish, stride} *)

Range(start, finish, stride) == [start |-> start, finish |-> finish, stride |-> stride]

\* Option::unwrap_or
unwrap_or(o, default) == IF IsSome(o) THEN Unwrap(o) ELSE default

\* MemoryLayout::new without the assertion on the stride
MemoryLayout_new_unchecked_stride(start, finish, stride) ==
    IF start < finish THEN Some(Range(start, finish, unwrap_or(stride, 1))) ELSE None

\* MemoryLayout::new on an Option stride: Some(range), or None when an
\* assertion aborts.
MemoryLayout_new(start, finish, stride) ==
    LET s == unwrap_or(stride, 1) IN
    IF start < finish /\ s # 0 THEN Some(Range(start, finish, s)) ELSE None

\* a usize representative compared with a small natural: a wrapped value
\* (negative representative) is 2^64 + r, above every natural of the model
usize_ge(r, n) == r < 0 \/ r >= n

contains(m, target) ==
    /\ target >= m.start
    /\ target < m.finish
    /\ ((target - m.start) % m.stride) = 0

index_of(m, target) ==
    IF contains(m, target) THEN Some((target - m.start) \div m.stride) ELSE None

layout_size(m) == ((m.finish - m.start) \div m.stride) + 1

\* get with the bound test off by one (idx > size instead of idx >= size)
layout_get_inclusive(m, i) ==
    IF i < 0 \/ i > layout_size(m) THEN None ELSE Some(m.start + (m.stride * i))

layout_get(m, i) ==
    IF usize_ge(i, layout_size(m)) THEN None ELSE Some(m.start + (m.stride * i))

RECURSIVE gen_array_loop(_, _, _)
gen_array_loop(m, current, out) ==
    IF current < m.finish
    THEN gen_array_loop(m, current + m.stride, Append(out, current))
    ELSE out

gen_array(m) == gen_array_loop(m, m.start, << >>)

(* TopLevelMemoryLayout {mems} *)

TopLevelMemoryLayout(mems) == [mems |-> mems]

RECURSIVE top_size_from(_, _)
top_size_from(mems, k) ==
    IF k > Len(mems) THEN 0 ELSE layout_size(mems[k]) + top_size_from(mems, k + 1)

top_size(tl) == top_size_from(tl.mems, 1)

top_contains(tl, target) == \E k \in 1 .. Len(tl.mems) : contains(tl.mems[k], target)

RECURSIVE top_get_loop(_, _, _, _)
top_get_loop(mems, k, i, bottom_idx) ==
    IF k > Len(mems) THEN None
    ELSE IF ~usize_ge(i - bottom_idx, layout_size(mems[k]))
         THEN layout_get(mems[k], i - bottom_idx)
         ELSE top_get_loop(mems, k + 1, i, bottom_idx + layout_size(mems[k]))

top_get(tl, i) == top_get_loop(tl.mems, 1, i, 0)

RECURSIVE top_index_of_loop(_, _, _, _)
top_index_of_loop(mems, k, target, i) ==
    IF k > Len(mems) THEN None
    ELSE IF contains(mems[k], target)
         THEN Some(i + Unwrap(index_of(mems[k], target)))
         ELSE top_index_of_loop(mems, k + 1, target, i + layout_size(mems[k]))

top_index_of(tl, target) == top_index_of_loop(tl.mems, 1, target, 0)

----------------------------------------------------------------------------
(* Routing programs and their evaluation *)

\* the outcome of a u64 computation: a value, or a panic
Val(v) == [panic |-> FALSE, v |-> v]
Panicked == [panic |-> TRUE, v |-> 0]

\* arithmetic overflow: `attempt to subtract with overflow` panics in a debug
\* build and wraps in a release build (wrapped is the wrapped representative)
OnOverflow(wrapped, b) == IF b = "debug" THEN Panicked ELSE Val(wrapped)

\* the order of u64 on representatives
u64_lt(a, b) == IF (a < 0) = (b < 0) THEN a < b ELSE b < 0

Terminal(tag, v) == [tag |-> tag, v |-> v]
Noop == Terminal("Noop", 0)

TerminalRoutingProgram_eval(t, port_val, b) ==
    CASE t.tag = "Add" ->
            IF port_val < 0 /\ port_val + t.v >= 0
            THEN OnOverflow(port_val + t.v, b) ELSE Val(port_val + t.v)
      [] t.tag = "SubPortVal" ->
            IF u64_lt(port_val, t.v)
            THEN OnOverflow(port_val - t.v, b) ELSE Val(port_val - t.v)
      [] t.tag = "SubValPort" ->
            IF u64_lt(t.v, port_val)
            THEN OnOverflow(t.v - port_val, b) ELSE Val(t.v - port_val)
      [] t.tag = "Constant" -> Val(t.v)
      [] t.tag = "RShift" ->
            IF t.v >= WordBits
            THEN OnOverflow(port_val \div Pow2(t.v % WordBits), b)
            ELSE IF port_val >= 0 THEN Val(port_val \div Pow2(t.v))
                 ELSE Val((Pow2(WordBits) + port_val) \div Pow2(t.v))
      [] t.tag = "Noop" -> Val(port_val)

\* SequenceRoutingProg: Prog(p) holds one terminal, Sequence(s) a list
SeqProg(p) == [kind |-> "Prog", s |-> <<p>>]
Sequence(s) == [kind |-> "Sequence", s |-> s]

RECURSIVE seq_fold(_, _, _, _)
seq_fold(s, k, acc, b) ==
    IF k > Len(s) \/ acc.panic THEN acc
    ELSE seq_fold(s, k + 1, TerminalRoutingProgram_eval(s[k], acc.v, b), b)

SequenceRoutingProg_eval(p, port_val, b) ==
    IF p.kind = "Sequence" THEN seq_fold(p.s, 1, Val(port_val), b)
    ELSE TerminalRoutingProgram_eval(p.s[1], port_val, b)

ComparisonOperator_eval(op, left, right) ==
    CASE op = "LessThan" -> u64_lt(left, right)
      [] op = "Equal" -> left = right
      [] op = "GreaterThan" -> u64_lt(right, left)
      [] op = "NotEqual" -> left # right
      [] op = "LessThanOrEqual" -> ~u64_lt(right, left)
      [] op = "GreaterThanOrEqual" -> ~u64_lt(left, right)

RECURSIVE Condition_eval(_, _)
Condition_eval(c, port_val) ==
    CASE c.kind = "ComparisonPortVal" -> ComparisonOperator_eval(c.op, port_val, c.val)
      [] c.kind = "ComparisonValPort" -> ComparisonOperator_eval(c.op, c.val, port_val)
      [] c.kind = "And" -> Condition_eval(c.c1, port_val) /\ Condition_eval(c.c2, port_val)
      [] c.kind = "Or" -> Condition_eval(c.c1, port_val) \/ Condition_eval(c.c2, port_val)
      [] c.kind = "Not" -> ~Condition_eval(c.c1, port_val)

\* TopLevelRoutingProgram: Prog(p), or Switch(cases, default) with cases a
\* list of <<condition, program>>
TopProg(p) == [kind |-> "Prog", cases |-> << >>, prog |-> p]
Switch(cases, default) == [kind |-> "Switch", cases |-> cases, prog |-> default]

\* the loop over the cases with the last matching case taken, not the first
RECURSIVE switch_loop_last(_, _, _, _, _)
switch_loop_last(cases, k, default, port_val, b) ==
    IF k > Len(cases) THEN SequenceRoutingProg_eval(default, port_val, b)
    ELSE IF Condition_eval(cases[k][1], port_val)
            /\ \A j \in (k + 1) .. Len(cases) : ~Condition_eval(cases[j][1], port_val)
         THEN SequenceRoutingProg_eval(cases[k][2], port_val, b)
         ELSE switch_loop_last(cases, k + 1, default, port_val, b)

RECURSIVE switch_loop(_, _, _, _, _)
switch_loop(cases, k, default, port_val, b) ==
    IF k > Len(cases) THEN SequenceRoutingProg_eval(default, port_val, b)
    ELSE IF Condition_eval(cases[k][1], port_val)
         THEN SequenceRoutingProg_eval(cases[k][2], port_val, b)
         ELSE switch_loop(cases, k + 1, default, port_val, b)

TopLevelRoutingProgram_eval(r, port_val, b) ==
    IF r.kind = "Switch" THEN switch_loop(r.cases, 1, r.prog, port_val, b)
    ELSE SequenceRoutingProg_eval(r.prog, port_val, b)

\* From<TerminalRoutingProgram> for TopLevelRoutingProgram
TopFromTerminal(p) == TopProg(SeqProg(p))

----------------------------------------------------------------------------
(* MemoryBank and Component *)

MemoryBank(routing, memory_layout) == [routing |-> routing, memory_layout |-> memory_layout]

\* "true" | "false" | "panic"
can_read(bank, index, b) ==
    LET routed_index == TopLevelRoutingProgram_eval(bank.routing, index, b) IN
    IF routed_index.panic THEN "panic"
    ELSE LET got == top_get(bank.memory_layout, routed_index.v) IN
         IF IsSome(got) /\ Unwrap(got) = index THEN "true" ELSE "false"

NoComp == [size |-> 0, width |-> 0, address_bit_width |-> 0, port_count |-> 0,
           banks |-> << >>]

\* from_trace with the trace's size and bitwidth taken for one another
Component_from_trace_swapped(banks, t) ==
    [size |-> trace_bitwidth(t), width |-> trace_size(t),
     address_bit_width |-> trace_bits_required(t), port_count |-> num_ports(t),
     banks |-> banks]

Component_from_trace(banks, t) ==
    [size |-> trace_size(t), width |-> trace_bitwidth(t),
     address_bit_width |-> trace_bits_required(t), port_count |-> num_ports(t),
     banks |-> banks]

Component_from_parse(size, width, banks) ==
    [size |-> size, width |-> width, address_bit_width |-> bits_required(width),
     port_count |-> Len(banks), banks |-> banks]

\* the two nested loops of vailidate, line l and slot i
\* "true" | "false" | "panic" (banks[idx] out of bounds, or eval overflow)
RECURSIVE vailidate_loop(_, _, _, _, _)
vailidate_loop(banks, lines, l, i, b) ==
    IF l > Len(lines) THEN "true"
    ELSE IF i > Len(lines[l]) THEN vailidate_loop(banks, lines, l + 1, 1, b)
    ELSE IF ~IsSome(lines[l][i]) THEN vailidate_loop(banks, lines, l, i + 1, b)
    ELSE IF i > Len(banks) THEN "panic"
    ELSE LET r == can_read(banks[i], Unwrap(lines[l][i]), b) IN
         IF r = "true" THEN vailidate_loop(banks, lines, l, i + 1, b) ELSE r

vailidate(c, t, b) == vailidate_loop(c.banks, t.trace, 1, 1, b)

----------------------------------------------------------------------------
(* The SMT problem of solve_trace *)

\* bit-vector operations at width w, on unsigned values
int2bv(x, w) == x % Pow2(w)
bvlshr(x, s, w) == IF s >= w THEN 0 ELSE x \div Pow2(s)
bvadd(x, y, w) == (x + y) % Pow2(w)
bvsub(x, y, w) == (x - y) % Pow2(w)

\* the datatype TerminalProgram with operands of width w
terminal_routing_program(w) ==
    {Terminal("NOOP", 0)} \cup
    {Terminal(tag, v) : tag \in {"RShift", "Add", "SubPV", "SubVP", "Constant"},
                        v \in 0 .. (Pow2(w) - 1)}

\* the strides offered to the solver for a memory of this size.  A stride
\* above finish - start leaves the bank one slot (cost 1, output 0 only), and
\* two requests of one port differ by at most size - 1: every cost the
\* solver can reach is reached with a stride in this window.
stride_window(size) == 0 .. (IF size - 1 > 2 THEN size - 1 ELSE 2)

\* the datatype Partition: Range(start_v, end_v, stride_v) over Int; the
\* integers offered to the solver are cut to a window around 0 .. size
terminal_partition(size) ==
    {Range(s, e, d) : s \in -1 .. size, e \in 0 .. (size + 1), d \in stride_window(size)}

\* the values offered for the fresh Int out_<bank>_<input>
OutValues(w) == -1 .. Pow2(w)

\* the bound conditions without start >= 0
bound_conditions_unbounded_start(bank, size) ==
    /\ bank.finish > bank.start
    /\ bank.finish <= size
    /\ bank.stride > 0

\* per bank: test => start >= 0 /\ finish > start /\ finish <= size /\ stride > 0
bound_conditions(bank, size) ==
    /\ bank.start >= 0
    /\ bank.finish > bank.start
    /\ bank.finish <= size
    /\ bank.stride > 0

\* the condition apply_terminal returns for the output value out
apply_terminal(input_index, datatype, out, w) ==
    LET in_bv == int2bv(input_index, w)
        out_bv == int2bv(out, w)
    IN  /\ (datatype.tag # "NOOP") \/ in_bv = out
        /\ (datatype.tag # "RShift") \/ bvlshr(in_bv, datatype.v, w) = out
        /\ (datatype.tag # "Add") \/ bvadd(datatype.v, in_bv, w) = out_bv
        /\ (datatype.tag # "SubPV") \/ bvsub(in_bv, datatype.v, w) = out_bv
        /\ (datatype.tag # "SubVP") \/ bvsub(datatype.v, in_bv, w) = out_bv
        /\ (datatype.tag # "Constant") \/ datatype.v = out_bv
        /\ out_bv = out

index_actual(bank, out) == bank.start + (out * bank.stride)

\* the condition map_addr returns: cond /\ validity
map_addr(input_index, bank, route, out, w) ==
    /\ apply_terminal(input_index, route, out, w)
    /\ index_actual(bank, out) < bank.finish

\* the four assertions solve_trace makes for one present request
request_assertions(request_index, bank, route, out, w, size) ==
    /\ map_addr(request_index, bank, route, out, w)
    /\ index_actual(bank, out) = request_index
    /\ index_actual(bank, out) < size
    /\ index_actual(bank, out) >= 0

\* the requests of port p taken from the first line alone
requests_of_first_line(t, p) ==
    {Unwrap(t.trace[l][p]) : l \in {k \in 1 .. Len(t.trace) : k = 1 /\ IsSome(t.trace[k][p])}}

\* the addresses requested at port p
requests_of(t, p) ==
    {Unwrap(t.trace[l][p]) : l \in {k \in 1 .. Len(t.trace) : IsSome(t.trace[k][p])}}

\* what solve_trace asserts for the requests of port p
port_requests(t, p, pm) ==
    \A a \in requests_of(t, p) :
        \E out \in OutValues(trace_bits_required(t)) :
            request_assertions(a, pm.bank, pm.route, out,
                               trace_bits_required(t), trace_size(t))

\* partition_conditions: the conjunction of the banks' bound conditions; here
\* the values of one bank variable that satisfy its conjunct
partition_conditions(size) ==
    {bank \in terminal_partition(size) : bound_conditions(bank, size)}

\* the values of (map_addr_p, bank_p) satisfying everything asserted about them
port_models(t, p) ==
    {pm \in [route : terminal_routing_program(trace_bits_required(t)),
             bank : partition_conditions(trace_size(t))] : port_requests(t, p, pm)}

\* the assignments satisfying every assertion: one [route, bank] per port
\* (no assertion mentions the variables of two ports)
RECURSIVE sat_models_upto(_, _)
sat_models_upto(t, n) ==
    IF n = 0 THEN {<< >>}
    ELSE LET here == port_models(t, n)
             before == sat_models_upto(t, n - 1)
         IN  {Append(m, pm) : m \in before, pm \in here}

sat_models(t) == sat_models_upto(t, num_ports(t))

\* the factor of a bank taken to be its span, whatever its stride
bank_cost_span(bank) == bank.finish - bank.start

\* one factor of partition_cost
bank_cost(bank) == ((bank.finish - bank.start) \div bank.stride) + 1

RECURSIVE partition_cost_from(_, _)
partition_cost_from(m, k) ==
    IF k > Len(m) THEN 1 ELSE bank_cost(m[k].bank) * partition_cost_from(m, k + 1)

partition_cost(m) == partition_cost_from(m, 1)

\* solver.minimize + check: the satisfying assignments of least cost
optimal_models(sat) ==
    LET costs == {partition_cost(m) : m \in sat}
    IN  IF sat = {} THEN {}
        ELSE LET best == CHOOSE c \in costs : \A d \in costs : c <= d
             IN  {m \in sat : partition_cost(m) = best}

\* z3_address_translation: the solver's constructor, lifted
z3_address_translation(route) ==
    CASE route.tag = "Constant" -> Terminal("Constant", route.v)
      [] route.tag = "SubVP" -> Terminal("SubValPort", route.v)
      [] route.tag = "SubPV" -> Terminal("SubPortVal", route.v)
      [] route.tag = "Add" -> Terminal("Add", route.v)
      [] route.tag = "RShift" -> Terminal("RShift", route.v)
      [] route.tag = "NOOP" -> Noop

\* parse_partition: range_z3 through MemoryLayout::new, then into()
parse_partition(bank) ==
    TopLevelMemoryLayout(<<Unwrap(MemoryLayout_new(bank.start, bank.finish, Some(bank.stride)))>>)

parse_z3_address_translation(route) == TopFromTerminal(z3_address_translation(route))

extract_description(m, t) ==
    Component_from_trace(
        [i \in 1 .. Len(m) |->
            MemoryBank(parse_z3_address_translation(m[i].route), parse_partition(m[i].bank))],
        t)

----------------------------------------------------------------------------
(* Inputs *)

Builds == {"debug", "release"}

\* the traces of the model have one or two ports
PortCounts == {1, 2}

Slots(size_bound) == {None} \cup {Some(a) : a \in 0 .. (size_bound - 1)}

\* the lines parse_trace leaves: width p, at least one present slot
NormalLines(p) == {l \in [1 .. p -> Slots(MaxSize)] : \E i \in 1 .. p : IsSome(l[i])}

\* the traces parse_trace can return: no all-absent line, all lines as long
\* as the longest
NormalTraces ==
    {<< >>} \cup
    UNION {[1 .. n -> NormalLines(p)] : p \in PortCounts, n \in 1 .. MaxLines}

Traces == [size : 2 .. MaxSize, bitwidth : {8}, trace : NormalTraces]

NoTrace == [size |-> 0, bitwidth |-> 0, trace |-> << >>]
NoLayout == Range(0, 0, 0)
NoRouting == TopProg(SeqProg(Noop))

----------------------------------------------------------------------------
(* main, Command::Synthesize *)

InitSynthesize ==
    /\ cmd = "synthesize"
    /\ pc = "start"
    /\ trace \in Traces
    /\ model = << >>
    /\ comp = NoComp
    /\ result = "none"
    /\ layout = NoLayout
    /\ idx = 0
    /\ program = NoRouting

\* solve_trace, up to the Component it returns or the panic that ends it
solve_trace ==
    /\ cmd = "synthesize"
    /\ pc = "start"
    /\ \/ /\ num_ports(trace) = 0
          \* partition_conditions: self.banks[0] on an empty vector
          /\ pc' = "abort"
          /\ result' = "panic: index out of bounds"
          /\ UNCHANGED <<model, comp>>
       \/ /\ num_ports(trace) > 0
          /\ LET sat == sat_models(trace) IN
             \/ /\ sat = {}
                \* solver.get_model().unwrap() on None
                /\ pc' = "abort"
                /\ result' = "panic: unwrap on None"
                /\ UNCHANGED <<model, comp>>
             \/ /\ \E m \in optimal_models(sat) :
                      /\ model' = m
                      /\ comp' = extract_description(m, trace)
                /\ pc' = "done"
                /\ result' = "component"
    /\ UNCHANGED <<cmd, trace, layout, idx, program>>

Next == solve_trace

Spec == InitSynthesize /\ [][Next]_vars

\* Synthesis of traces of two lines, in which a port makes two requests and
\* the least cost is above 1, and of two traces by name.

\* the traces here have one or two lines
LineCounts == {1, 2}

\* the lines of a trace of this size with every address in range
LinesInRange(size, p) ==
    {l \in [1 .. p -> Slots(size)] : \E i \in 1 .. p : IsSome(l[i])}

TracesInRange ==
    UNION {[size : {s}, bitwidth : {8},
            trace : {<< >>} \cup
                    UNION {[1 .. n -> LinesInRange(s, p)] :
                              p \in PortCounts, n \in LineCounts}] :
           s \in 2 .. MaxOptSize}

\* size=4, bitwidth=8, trace=[[0],[1],[2],[3]]
IdentityScenario ==
    [size |-> 4, bitwidth |-> 8,
     trace |-> << <<Some(0)>>, <<Some(1)>>, <<Some(2)>>, <<Some(3)>> >>]

\* size=2, bitwidth=8, trace=[[2]]: an address out of range
OutOfRangeScenario == [size |-> 2, bitwidth |-> 8, trace |-> << <<Some(2)>> >>]

InitOptimum ==
    /\ cmd = "synthesize"
    /\ pc = "start"
    /\ trace \in TracesInRange \cup {IdentityScenario, OutOfRangeScenario}
    /\ model = << >>
    /\ comp = NoComp
    /\ result = "none"
    /\ layout = NoLayout
    /\ idx = 0
    /\ program = NoRouting

SpecOptimum == InitOptimum /\ [][Next]_vars

\* solve_trace up to solver.minimize: the problem it hands to the solver,
\* as the set of assignments satisfying the assertions and their least cost

InitConstraints ==
    /\ cmd = "constraints"
    /\ pc = "start"
    /\ trace \in TracesInRange \cup {OutOfRangeScenario}
    /\ model = << >>
    /\ comp = NoComp
    /\ result = "none"
    /\ layout = NoLayout
    /\ idx = 0
    /\ program = NoRouting

\* the least value of the objective over sat, None for no assignment
least_cost(sat) ==
    IF sat = {} THEN None
    ELSE Some(partition_cost(CHOOSE m \in optimal_models(sat) : TRUE))

solve_trace_assertions ==
    /\ cmd = "constraints"
    /\ pc = "start"
    /\ \/ /\ num_ports(trace) = 0
          \* partition_conditions: self.banks[0] on an empty vector
          /\ pc' = "abort"
          /\ result' = "panic: index out of bounds"
       \/ /\ num_ports(trace) > 0
          /\ pc' = "asserted"
          /\ LET sat == sat_models(trace) IN
             result' = [sat |-> sat, least |-> least_cost(sat)]
    /\ UNCHANGED <<cmd, trace, model, comp, layout, idx, program>>

NextConstraints == solve_trace_assertions

SpecConstraints == InitConstraints /\ [][NextConstraints]_vars

----------------------------------------------------------------------------
(* main, Command::Verify *)

DescRoutings ==
    {TopFromTerminal(Noop),
     TopFromTerminal(Terminal("RShift", 1)),
     TopFromTerminal(Terminal("Add", 1)),
     TopFromTerminal(Terminal("SubPortVal", 1)),
     TopFromTerminal(Terminal("SubValPort", 1)),
     TopFromTerminal(Terminal("Constant", 0)),
     TopProg(Sequence(<<Terminal("SubPortVal", 1), Terminal("Add", 1)>>)),
     Switch(<< <<[kind |-> "ComparisonPortVal", val |-> 1, op |-> "LessThan"],
                 SeqProg(Noop)>> >>,
            SeqProg(Terminal("SubPortVal", 1)))}

DescBanks ==
    {MemoryBank(r, TopLevelMemoryLayout(<<Unwrap(MemoryLayout_new(0, MaxSize, Some(1)))>>)) :
        r \in DescRoutings}
    \cup
    {MemoryBank(TopFromTerminal(Noop),
                TopLevelMemoryLayout(<<Unwrap(MemoryLayout_new(0, 1, None)),
                                       Unwrap(MemoryLayout_new(2, MaxSize + 1, Some(1)))>>))}

\* the Components parse_component returns in the model
Descriptions ==
    {Component_from_parse(MaxSize, 8, banks) :
        banks \in UNION {[1 .. n -> DescBanks] : n \in PortCounts}}

InitVerify ==
    /\ cmd = "verify"
    /\ pc = "start"
    /\ trace \in Traces
    /\ model = << >>
    /\ comp \in Descriptions
    /\ result = "none"
    /\ layout = NoLayout
    /\ idx = 0
    /\ program = NoRouting

\* comp.vailidate(&trace) and the report, in a build of profile b
main_verify ==
    /\ cmd = "verify"
    /\ pc = "start"
    /\ \E b \in Builds :
          LET r == vailidate(comp, trace, b) IN
          /\ pc' = IF r = "panic" THEN "abort" ELSE "done"
          /\ result' = [build |-> b,
                        outcome |-> CASE r = "true" -> "validated"
                                      [] r = "false" -> "failed"
                                      [] r = "panic" -> "panic"]
    /\ UNCHANGED <<cmd, trace, model, comp, layout, idx, program>>

NextVerify == main_verify

SpecVerify == InitVerify /\ [][NextVerify]_vars

----------------------------------------------------------------------------
(* The layout algebra: one call on a Range built by MemoryLayout::new *)

\* the Ranges MemoryLayout::new returns (it aborts on the other arguments)
Ranges ==
    {Unwrap(o) : o \in {n \in {MemoryLayout_new(s, f, Some(d)) :
                                  s \in 0 .. MaxFinish, f \in 0 .. MaxFinish,
                                  d \in 0 .. MaxLayoutStride} : IsSome(n)}}

InitLayout ==
    /\ cmd = "layout"
    /\ pc = "start"
    /\ trace = NoTrace
    /\ model = << >>
    /\ comp = NoComp
    /\ result = "none"
    /\ layout \in Ranges
    /\ idx \in 0 .. MaxIdx
    /\ program = NoRouting

call_get ==
    /\ cmd = "layout" /\ pc = "start"
    /\ pc' = "get"
    /\ result' = layout_get(layout, idx)
    /\ UNCHANGED <<cmd, trace, model, comp, layout, idx, program>>

call_size ==
    /\ cmd = "layout" /\ pc = "start"
    /\ pc' = "size"
    /\ result' = layout_size(layout)
    /\ UNCHANGED <<cmd, trace, model, comp, layout, idx, program>>

call_contains ==
    /\ cmd = "layout" /\ pc = "start"
    /\ pc' = "contains"
    /\ result' = contains(layout, idx)
    /\ UNCHANGED <<cmd, trace, model, comp, layout, idx, program>>

call_index_of ==
    /\ cmd = "layout" /\ pc = "start"
    /\ pc' = "index_of"
    /\ result' = index_of(layout, idx)
    /\ UNCHANGED <<cmd, trace, model, comp, layout, idx, program>>

call_gen_array ==
    /\ cmd = "layout" /\ pc = "start"
    /\ pc' = "gen_array"
    /\ result' = gen_array(layout)
    /\ UNCHANGED <<cmd, trace, model, comp, layout, idx, program>>

NextLayout ==
    \/ call_get
    \/ call_size
    \/ call_contains
    \/ call_index_of
    \/ call_gen_array

SpecLayout == InitLayout /\ [][NextLayout]_vars

----------------------------------------------------------------------------
(* The parser's range rules: one call of MemoryLayout::new *)

\* the numbers of a range: two or three ("start..finish" has no stride)
RangeNumbers ==
    [start : 0 .. MaxFinish, finish : 0 .. MaxFinish,
     stride : {None} \cup {Some(d) : d \in 0 .. MaxLayoutStride}]

InitRange ==
    /\ cmd = "range"
    /\ pc = "start"
    /\ trace = NoTrace
    /\ model = << >>
    /\ comp = NoComp
    /\ result = "none"
    /\ layout \in RangeNumbers
    /\ idx = 0
    /\ program = NoRouting

\* a range of a component description: two or three numbers
range_ast ==
    /\ cmd = "range" /\ pc = "start"
    /\ LET new == MemoryLayout_new(layout.start, layout.finish, layout.stride) IN
       IF IsSome(new)
       THEN pc' = "range_ast" /\ result' = Unwrap(new)
       ELSE pc' = "abort" /\ result' = "assertion failed"
    /\ UNCHANGED <<cmd, trace, model, comp, layout, idx, program>>

\* a range of a solver answer: always three numbers
range_z3 ==
    /\ cmd = "range" /\ pc = "start"
    /\ IsSome(layout.stride)
    /\ LET new == MemoryLayout_new(layout.start, layout.finish, Some(Unwrap(layout.stride))) IN
       IF IsSome(new)
       THEN pc' = "range_z3" /\ result' = Unwrap(new)
       ELSE pc' = "abort" /\ result' = "assertion failed"
    /\ UNCHANGED <<cmd, trace, model, comp, layout, idx, program>>

NextRange ==
    \/ range_ast
    \/ range_z3

SpecRange == InitRange /\ [][NextRange]_vars

----------------------------------------------------------------------------
(* One call on a TopLevelMemoryLayout of one or two Ranges *)

TopLayouts ==
    {TopLevelMemoryLayout(mems) : mems \in UNION {[1 .. n -> Ranges] : n \in {1, 2}}}

InitTopLayout ==
    /\ cmd = "toplayout"
    /\ pc = "start"
    /\ trace = NoTrace
    /\ model = << >>
    /\ comp = NoComp
    /\ result = "none"
    /\ layout \in TopLayouts
    /\ idx \in 0 .. MaxIdx
    /\ program = NoRouting

call_top_get ==
    /\ cmd = "toplayout" /\ pc = "start"
    /\ pc' = "top_get"
    /\ result' = top_get(layout, idx)
    /\ UNCHANGED <<cmd, trace, model, comp, layout, idx, program>>

call_top_index_of ==
    /\ cmd = "toplayout" /\ pc = "start"
    /\ pc' = "top_index_of"
    /\ result' = top_index_of(layout, idx)
    /\ UNCHANGED <<cmd, trace, model, comp, layout, idx, program>>

call_top_size ==
    /\ cmd = "toplayout" /\ pc = "start"
    /\ pc' = "top_size"
    /\ result' = top_size(layout)
    /\ UNCHANGED <<cmd, trace, model, comp, layout, idx, program>>

NextTopLayout ==
    \/ call_top_get
    \/ call_top_index_of
    \/ call_top_size

SpecTopLayout == InitTopLayout /\ [][NextTopLayout]_vars

----------------------------------------------------------------------------
(* main, Trace::parse_trace on the text of a trace file *)

\* the slots of a line of the document: null or an address
RawSlots == {None, Some(0)}

RawLines == UNION {[1 .. n -> RawSlots] : n \in 0 .. MaxRawLen}

\* the documents serde_json accepts: size, bitwidth and any list of lines
RawTraces ==
    [size : {2}, bitwidth : {8},
     trace : UNION {[1 .. n -> RawLines] : n \in 0 .. MaxRawLines}]

\* a document: well-formed with its value, or one serde_json rejects
Documents == {[ok |-> TRUE, value |-> t] : t \in RawTraces}
             \cup {[ok |-> FALSE, value |-> NoTrace]}

InitParse ==
    /\ cmd = "parse"
    /\ pc = "start"
    /\ trace \in Documents
    /\ model = << >>
    /\ comp = NoComp
    /\ result = "none"
    /\ layout = NoLayout
    /\ idx = 0
    /\ program = NoRouting

\* serde_json::from_str(..)?, then normalize; main panics on Err
parse_trace ==
    /\ cmd = "parse"
    /\ pc = "start"
    /\ \/ /\ ~trace.ok
          /\ pc' = "abort"
          /\ result' = "malformed trace file"
       \/ /\ trace.ok
          /\ pc' = "done"
          /\ result' = normalize(trace.value)
    /\ UNCHANGED <<cmd, trace, model, comp, layout, idx, program>>

NextParse == parse_trace

SpecParse == InitParse /\ [][NextParse]_vars

----------------------------------------------------------------------------
(* TopLevelRoutingProgram::eval on one port value, as can_read calls it *)

ComparisonPortVal(val, op) ==
    [kind |-> "ComparisonPortVal", val |-> val, op |-> op, c1 |-> << >>, c2 |-> << >>]
ComparisonValPort(val, op) ==
    [kind |-> "ComparisonValPort", val |-> val, op |-> op, c1 |-> << >>, c2 |-> << >>]
And(c1, c2) == [kind |-> "And", val |-> 0, op |-> "", c1 |-> c1, c2 |-> c2]
Or(c1, c2) == [kind |-> "Or", val |-> 0, op |-> "", c1 |-> c1, c2 |-> c2]
Not(c1) == [kind |-> "Not", val |-> 0, op |-> "", c1 |-> c1, c2 |-> << >>]

EvalTerminals ==
    {Noop, Terminal("RShift", WordBits)} \cup
    {Terminal(tag, v) : tag \in {"RShift", "Add", "SubPortVal", "SubValPort", "Constant"},
                        v \in 0 .. MaxOperand}

\* no shift follows a subtraction: the shift of a wrapped value, about
\* 2^63, lies beyond the integers the model computes with
EvalSequences ==
    {Sequence(<< >>), Sequence(<<Terminal("Add", 1), Terminal("RShift", 1)>>)} \cup
    {Sequence(<<t1, t2>>) :
        t1 \in {Terminal("Add", 1), Terminal("SubPortVal", 1), Terminal("SubValPort", MaxOperand)},
        t2 \in {Terminal("Constant", 0), Terminal("SubPortVal", MaxOperand), Terminal("Add", 1)}}

EvalConditions ==
    {ComparisonPortVal(1, "LessThan"),
     ComparisonValPort(1, "LessThan"),
     ComparisonPortVal(MaxOperand, "GreaterThanOrEqual"),
     And(ComparisonPortVal(1, "GreaterThanOrEqual"), ComparisonValPort(MaxPortVal, "GreaterThan")),
     Or(ComparisonPortVal(0, "Equal"), ComparisonPortVal(MaxPortVal, "Equal")),
     Not(ComparisonPortVal(1, "NotEqual")),
     ComparisonValPort(1, "LessThanOrEqual")}

\* the programs of the cases and the default of a Switch under test
SwitchProgs ==
    {SeqProg(Noop), SeqProg(Terminal("Add", 1)), SeqProg(Terminal("Constant", 0)),
     Sequence(<<Terminal("SubPortVal", 1), Terminal("Add", MaxOperand)>>)}

EvalSwitches ==
    {Switch(cases, default) :
        cases \in UNION {[1 .. n -> EvalConditions \X SwitchProgs] : n \in 0 .. 2},
        default \in SwitchProgs}

EvalRoutings ==
    {TopFromTerminal(t) : t \in EvalTerminals}
    \cup {TopProg(p) : p \in EvalSequences}
    \cup EvalSwitches

InitEval ==
    /\ cmd = "eval"
    /\ pc = "start"
    /\ trace = NoTrace
    /\ model = << >>
    /\ comp = NoComp
    /\ result = "none"
    /\ layout = NoLayout
    /\ idx \in 0 .. MaxPortVal
    /\ program \in EvalRoutings

\* self.routing.eval(index) in a build of profile b: the value, or the panic
\* that ends the process
call_eval ==
    /\ cmd = "eval"
    /\ pc = "start"
    /\ \E b \in Builds :
          LET out == TopLevelRoutingProgram_eval(program, idx, b) IN
          /\ pc' = IF out.panic THEN "abort" ELSE "done"
          /\ result' = [build |-> b, out |-> out]
    /\ UNCHANGED <<cmd, trace, model, comp, layout, idx, program>>

NextEval == call_eval

SpecEval == InitEval /\ [][NextEval]_vars

----------------------------------------------------------------------------
(* main, Command::Output: emit_calyx_comp of a parsed description *)

\* one line of the wires group: dst = src, or dst = <width>'d<value>
Wire(dst, src) == [dst |-> dst, src |-> src, lit |-> None]
WireLit(dst, width, value) == [dst |-> dst, src |-> "", lit |-> Some(<<width, value>>)]

\* one cell: name_<bank> = prim(args)
Cell(name, bank_idx, prim, args) ==
    [name |-> name, bank |-> bank_idx, prim |-> prim, args |-> args]

\* what emit_wires writes for every supported terminal after its own lines
read_wires(bank_idx) == <<[bank |-> bank_idx, wire |-> Wire("read_bank_addr", "bank.read_data")]>>

\* the cells and wires of an operator cell cellname, the port value on side
\* port_side and the operand v on side lit_side
op_wires(bank_idx, cellname, port_side, lit_side, addr_width, v) ==
    <<[bank |-> bank_idx, wire |-> Wire(cellname \o "." \o port_side, "bank_addr")],
      [bank |-> bank_idx, wire |-> WireLit(cellname \o "." \o lit_side, addr_width, v)],
      [bank |-> bank_idx, wire |-> Wire("bank.addr0", cellname \o ".out")]>>
    \o read_wires(bank_idx)

\* MemoryBank::emit_wires: the (cells, wires) of one bank, or the panic of
\* todo!()
MemoryBank_emit_wires(bank, bank_idx, addr_width) ==
    IF bank.routing.kind = "Prog" /\ bank.routing.prog.kind = "Prog"
    THEN LET p == bank.routing.prog.s[1] IN
         CASE p.tag = "RShift" ->
                [panic |-> FALSE,
                 c |-> <<Cell("rsh", bank_idx, "std_rsh", <<addr_width>>)>>,
                 w |-> op_wires(bank_idx, "rsh", "left", "right", addr_width, p.v)]
           [] p.tag = "Add" ->
                [panic |-> FALSE,
                 c |-> <<Cell("add", bank_idx, "std_add", <<addr_width>>)>>,
                 w |-> op_wires(bank_idx, "add", "left", "right", addr_width, p.v)]
           [] p.tag = "SubPortVal" ->
                [panic |-> FALSE,
                 c |-> <<Cell("sub", bank_idx, "std_sub", <<addr_width>>)>>,
                 w |-> op_wires(bank_idx, "sub", "left", "right", addr_width, p.v)]
           [] p.tag = "SubValPort" ->
                [panic |-> FALSE,
                 c |-> <<Cell("sub", bank_idx, "std_sub", <<addr_width>>)>>,
                 w |-> op_wires(bank_idx, "sub", "right", "left", addr_width, p.v)]
           [] p.tag = "Constant" -> [panic |-> TRUE, c |-> << >>, w |-> << >>]
           [] p.tag = "Noop" ->
                [panic |-> FALSE,
                 c |-> << >>,
                 w |-> <<[bank |-> bank_idx, wire |-> Wire("bank.addr0", "bank_addr")]>>
                       \o read_wires(bank_idx)]
    ELSE [panic |-> TRUE, c |-> << >>, w |-> << >>]

\* Component::emit_wires: the banks in order; the first todo!() ends it
RECURSIVE emit_wires_loop(_, _, _)
emit_wires_loop(c, k, acc) ==
    IF k > Len(c.banks) THEN acc
    ELSE LET e == MemoryBank_emit_wires(c.banks[k], k - 1, c.address_bit_width) IN
         IF e.panic THEN e
         ELSE emit_wires_loop(c, k + 1,
                              [panic |-> FALSE, c |-> acc.c \o e.c, w |-> acc.w \o e.w])

Component_emit_wires(c) == emit_wires_loop(c, 1, [panic |-> FALSE, c |-> << >>, w |-> << >>])

emit_input_ports(c) ==
    [k \in 1 .. Len(c.banks) |-> [name |-> "bank_addr", bank |-> k - 1,
                                  width |-> c.address_bit_width]]

emit_output_ports(c) ==
    [k \in 1 .. Len(c.banks) |-> [name |-> "read_bank_addr", bank |-> k - 1,
                                  width |-> c.width]]

emit_cells(c) ==
    [k \in 1 .. Len(c.banks) |->
        Cell("bank", k - 1, "std_mem_d1",
             <<c.width, top_size(c.banks[k].memory_layout), c.address_bit_width>>)]

\* emit_calyx_comp: the component text, or the panic of emit_wires, which
\* runs before anything is written
emit_calyx_comp(c) ==
    LET tw == Component_emit_wires(c) IN
    IF tw.panic THEN [panic |-> TRUE, text |-> << >>]
    ELSE [panic |-> FALSE,
          text |-> <<[size |-> c.size, port_count |-> c.port_count,
                      input_ports |-> emit_input_ports(c),
                      output_ports |-> emit_output_ports(c),
                      cells |-> emit_cells(c),
                      translation_cells |-> tw.c,
                      wires |-> tw.w]>>]

InitOutput ==
    /\ cmd = "output"
    /\ pc = "start"
    /\ trace = NoTrace
    /\ model = << >>
    /\ comp \in Descriptions
    /\ result = "none"
    /\ layout = NoLayout
    /\ idx = 0
    /\ program = NoRouting

\* write!(output, "{}", description.emit_calyx_comp())
main_output ==
    /\ cmd = "output"
    /\ pc = "start"
    /\ LET e == emit_calyx_comp(comp) IN
       /\ pc' = IF e.panic THEN "abort" ELSE "done"
       /\ result' = [outcome |-> IF e.panic THEN "panic: not yet implemented" ELSE "written",
                     output |-> e.text]
    /\ UNCHANGED <<cmd, trace, model, comp, layout, idx, program>>

NextOutput == main_output

SpecOutput == InitOutput /\ [][NextOutput]_vars

----------------------------------------------------------------------------
(* Properties of synthesis (specification Spec) *)

Synthesized == cmd = "synthesize" /\ pc = "done"

\* the logical addresses the layout of bank i of c stores
AddressesOf(c, i) == {a \in 0 .. c.size : top_contains(c.banks[i].memory_layout, a)}

\* C1: every Component lifted from a solver answer validates its trace: every
\* present request a at port p is read back, layout.get(routing.eval(a)) = a,
\* in a debug and in a release build.
C1_SynthesisValidates ==
    Synthesized => \A b \in Builds : vailidate(comp, trace, b) = "true"

\* C2: in a synthesized Component the layouts of two different ports store
\* disjoint sets of logical addresses.
C2_DisjointBanks ==
    Synthesized =>
        \A i, j \in 1 .. Len(comp.banks) :
            i # j => AddressesOf(comp, i) \cap AddressesOf(comp, j) = {}

\* C3: when the asserted constraints have no satisfying assignment, synthesis
\* ends in the Unsatisfiable error: no Component, and no abort.
C3_UnsatIsAnError ==
    (cmd = "synthesize" /\ pc # "start" /\ num_ports(trace) > 0
        /\ sat_models(trace) = {})
    => (pc = "error" /\ result = "Unsatisfiable")

\* C4: for size = 2 and trace [[0, 0]] the constraints are unsatisfiable, so
\* synthesis returns no Component.
C4_SharedAddressIsUnsat ==
    (cmd = "synthesize" /\ pc # "start" /\ trace.size = 2
        /\ trace.trace = << <<Some(0), Some(0)>> >>)
    => (pc # "done" /\ sat_models(trace) = {})

\* C6: a synthesized Component has one bank per port, bank i lifted from the
\* solver's values for port i, and takes size and width from the trace.
C6_OneBankPerPort ==
    Synthesized =>
        /\ Len(comp.banks) = comp.port_count
        /\ comp.port_count = num_ports(trace)
        /\ comp.size = trace.size
        /\ comp.width = trace.bitwidth
        /\ \A i \in 1 .. num_ports(trace) :
              LET r == comp.banks[i].memory_layout.mems[1]
                  p == comp.banks[i].routing.prog.s[1]
              IN  /\ Len(comp.banks[i].memory_layout.mems) = 1
                  /\ <<r.start, r.finish, r.stride>>
                        = <<model[i].bank.start, model[i].bank.finish, model[i].bank.stride>>
                  /\ comp.banks[i].routing.kind = "Prog"
                  /\ comp.banks[i].routing.prog.kind = "Prog"
                  /\ p.v = model[i].route.v
                  /\ <<model[i].route.tag, p.tag>> \in
                        {<<"NOOP", "Noop">>, <<"RShift", "RShift">>, <<"Add", "Add">>,
                         <<"SubPV", "SubPortVal">>, <<"SubVP", "SubValPort">>,
                         <<"Constant", "Constant">>}
                  \* the bank of port i serves port i's variables: its range
                  \* satisfies what was asserted about bank_i
                  /\ port_requests(trace, i, model[i])

C6_Witness ==
    /\ Synthesized
    /\ num_ports(trace) = 2
    /\ comp.banks[1] # comp.banks[2]
    /\ comp.size # comp.width

----------------------------------------------------------------------------
(* Properties of validation (specification SpecVerify) *)

\* request a at port p of component c is read back in a build of profile b
Served(c, p, a, b) == p <= Len(c.banks) /\ can_read(c.banks[p], a, b) = "true"

AllServed(c, t, b) ==
    \A l \in 1 .. Len(t.trace) : \A p \in 1 .. Len(t.trace[l]) :
        IsSome(t.trace[l][p]) => Served(c, p, Unwrap(t.trace[l][p]), b)

\* C5: vailidate returns true iff every present request a at port p is read
\* back by bank p (layout.get(routing(a)) is defined and equals a), and
\* returns false when some request is not.
C5_ValidateIffAllServed ==
    (cmd = "verify" /\ pc # "start") =>
        IF AllServed(comp, trace, result.build)
        THEN result.outcome = "validated"
        ELSE result.outcome = "failed"

----------------------------------------------------------------------------
(* Properties of the layout algebra (specification SpecLayout) *)

\* C7: get(i) is defined iff i < size(), and then equals start + i * stride.
C7_GetDefinedBelowSize ==
    (cmd = "layout" /\ pc = "get") =>
        /\ IsSome(result) <=> idx < layout_size(layout)
        /\ IsSome(result) => Unwrap(result) = layout.start + (idx * layout.stride)

C7_Witness ==
    /\ cmd = "layout" /\ pc = "get"
    /\ IsSome(result)
    /\ idx > 0
    /\ layout.stride > 1
    /\ layout.start > 0

\* C8: every address get returns is contained in the Range.
C8_ContainsGet ==
    (cmd = "layout" /\ pc = "get" /\ IsSome(result)) => contains(layout, Unwrap(result))

\* C9: index_of inverts get: index_of(get(i)) = i wherever get(i) is defined.
C9_IndexOfGet ==
    (cmd = "layout" /\ pc = "get" /\ IsSome(result))
    => index_of(layout, Unwrap(result)) = Some(idx)

\* C10: size() is k + 1 with k = floor((finish - start - 1) / stride), the
\* number of addresses start, start + stride, ... below finish.
C10_SizeIsCapacity ==
    (cmd = "layout" /\ pc = "size") =>
        /\ result = ((layout.finish - layout.start - 1) \div layout.stride) + 1
        /\ result = Len(gen_array(layout))

----------------------------------------------------------------------------
(* Properties of parse_trace (specification SpecParse) *)

Parsed == cmd = "parse" /\ pc = "done"

\* C11: after parse_trace no line is entirely absent (the lines without a
\* present slot, empty lines included, are dropped, the others kept in
\* order) and every line has length num_ports(), the greatest length among
\* the lines that remain.
C11_NoAbsentLineAllNumPorts ==
    Parsed =>
        LET lines == result.trace
            kept == SelectSeq(trace.value.trace,
                              LAMBDA x : \E i \in 1 .. Len(x) : IsSome(x[i]))
        IN  /\ Len(lines) = Len(kept)
            /\ \A k \in 1 .. Len(lines) :
                  /\ \E i \in 1 .. Len(lines[k]) : IsSome(lines[k][i])
                  /\ Len(lines[k]) = num_ports(result)
                  /\ SubSeq(lines[k], 1, Len(kept[k])) = kept[k]
                  /\ Len(kept[k]) <= num_ports(result)
            /\ lines # << >> => \E k \in 1 .. Len(kept) : Len(kept[k]) = num_ports(result)

C11_Witness ==
    /\ Parsed
    /\ Len(result.trace) = 2
    /\ Len(trace.value.trace) = 3
    /\ \E k \in 1 .. 3 : Len(trace.value.trace[k]) = 0
    /\ \E k \in 1 .. 3 : Len(trace.value.trace[k]) = 1
    /\ num_ports(result) = 2

\* C12: normalize is idempotent: normalizing a normalized trace changes
\* neither the lines, their order and lengths, nor size and bitwidth.
C12_NormalizeIdempotent ==
    Parsed => normalize(result) = result

C12_Witness ==
    /\ Parsed
    /\ Len(result.trace) = 2
    /\ result.trace # trace.value.trace
    /\ \E k \in 1 .. 2 : \E i \in 1 .. 2 : ~IsSome(result.trace[k][i])

----------------------------------------------------------------------------
(* Properties of routing evaluation (specification SpecEval) *)

Evaluated == cmd = "eval" /\ pc # "start"

\* C14: routing evaluation is total: for every terminal, operand and input,
\* eval returns a natural number, without aborting and without wrapping
\* (SubPortVal(k) below k and SubValPort(k) above k included), so
\* TopLevelRoutingProgram::eval never panics.
C14_EvalTotal ==
    Evaluated =>
        /\ pc = "done"
        /\ ~result.out.panic
        /\ result.out.v >= 0

\* the cases of the Switch under test whose condition holds on x
Matching(x) ==
    {k \in 1 .. Len(program.cases) : Condition_eval(program.cases[k][1], x)}

FirstMatching(x) == CHOOSE k \in Matching(x) : \A j \in Matching(x) : k <= j

\* C15: on input x a Switch evaluates to seq_i(x) for the smallest i whose
\* cond_i(x) holds, and to default(x) when no condition holds; conditions
\* and sequences all take the original x.
C15_SwitchFirstMatch ==
    (Evaluated /\ program.kind = "Switch") =>
        result.out =
            IF Matching(idx) = {}
            THEN SequenceRoutingProg_eval(program.prog, idx, result.build)
            ELSE SequenceRoutingProg_eval(program.cases[FirstMatching(idx)][2], idx,
                                          result.build)

C15_Witness ==
    /\ Evaluated /\ program.kind = "Switch"
    /\ Matching(idx) = {1, 2}
    /\ ~result.out.panic
    /\ result.out = SequenceRoutingProg_eval(program.cases[1][2], idx, result.build)
    /\ result.out # SequenceRoutingProg_eval(program.cases[2][2], idx, result.build)
    /\ result.out # SequenceRoutingProg_eval(program.prog, idx, result.build)

----------------------------------------------------------------------------
(* Properties of the address width and the solver's answer (specification Spec) *)

RECURSIVE CeilLog2(_)
CeilLog2(n) == IF n <= 1 THEN 0 ELSE 1 + CeilLog2((n + 1) \div 2)

\* C13: the address width of the bit-vector operands and of the Component
\* is ceil(log2(size)), so every address 0 .. size - 1 fits in it.
C13_AddressBitsIsCeilLog2 ==
    Synthesized =>
        /\ trace_bits_required(trace) = CeilLog2(trace.size)
        /\ comp.address_bit_width = CeilLog2(comp.size)
        /\ \A a \in 0 .. (trace.size - 1) : a < Pow2(comp.address_bit_width)

----------------------------------------------------------------------------
(* Properties of the emitter (specification SpecOutput) *)

\* bank routing the emitter does not support: not a single terminal, or the
\* terminal Constant
UnsupportedBank(bank) ==
    \/ bank.routing.kind # "Prog"
    \/ bank.routing.prog.kind # "Prog"
    \/ bank.routing.prog.s[1].tag = "Constant"

\* C16: emitting a Component with an unsupported bank ends in the
\* EmitUnsupported error returned to the caller: no hardware text, and no
\* abort of the process.
C16_UnsupportedIsAnError ==
    (cmd = "output" /\ pc # "start"
        /\ \E k \in 1 .. Len(comp.banks) : UnsupportedBank(comp.banks[k]))
    => (pc = "error" /\ result.outcome = "EmitUnsupported" /\ result.output = << >>)

\* the cost of an assignment as the claim states it: the product over the
\* ports of floor((end - start) / stride) + 1
RECURSIVE CapacityProduct(_, _)
CapacityProduct(m, k) ==
    IF k > Len(m) THEN 1
    ELSE (((m[k].bank.finish - m[k].bank.start) \div m[k].bank.stride) + 1)
         * CapacityProduct(m, k + 1)

\* the traces of SpecOptimum that have ports
PortedTraces == {u \in TracesInRange \cup {IdentityScenario} : num_ports(u) > 0}

\* the assignments that solve the trace by identity routing alone
IdentityModels(sat) == {m \in sat : \A p \in 1 .. Len(m) : m[p].route.tag = "NOOP"}

\* <<t, FALSE, c>> for every trace t and every cost c of an assignment
\* satisfying what solve_trace asserts for t, and <<t, TRUE, c>> for the
\* cost c of every identity solution of t
SolutionCosts ==
    UNION {LET sat == sat_models(t) IN
           {<<t, FALSE, CapacityProduct(m, 1)>> : m \in sat}
           \cup {<<t, TRUE, CapacityProduct(m, 1)>> : m \in IdentityModels(sat)} :
           t \in PortedTraces}

C18_IdentityScenarioOptimum ==
    (Synthesized /\ trace = IdentityScenario) =>
        /\ comp.banks = <<MemoryBank(TopFromTerminal(Noop),
                                     TopLevelMemoryLayout(<<Range(0, 4, 1)>>))>>
        /\ partition_cost(model) = 4
        /\ \A b \in Builds : vailidate(comp, trace, b) = "true"

\* C19: symbolic and concrete routing agree: when the constraint the
\* encoding states for the routing of a port holds for a request a < size with
\* output out, the lifted routing evaluates a to the same out.
C19_SymbolicConcreteAgree ==
    Synthesized =>
        \A p \in 1 .. num_ports(trace) : \A a \in requests_of(trace, p) :
            \A out \in OutValues(trace_bits_required(trace)) :
                apply_terminal(a, model[p].route, out, trace_bits_required(trace))
                => \A b \in Builds :
                      TerminalRoutingProgram_eval(z3_address_translation(model[p].route), a, b)
                          = Val(out)

\* C20: every bank Range of a satisfying assignment has 0 <= start < end <=
\* size and stride > 0, the banks of ports without a request included, so
\* MemoryLayout::new accepts it.
C20_BankRangesWellFormed ==
    Synthesized =>
        \A p \in 1 .. num_ports(trace) :
            /\ 0 <= model[p].bank.start
            /\ model[p].bank.start < model[p].bank.finish
            /\ model[p].bank.finish <= trace.size
            /\ model[p].bank.stride > 0
            /\ IsSome(MemoryLayout_new(model[p].bank.start, model[p].bank.finish,
                                       Some(model[p].bank.stride)))
            /\ comp.banks[p].memory_layout.mems
                  = <<Range(model[p].bank.start, model[p].bank.finish, model[p].bank.stride)>>

C20_Witness ==
    /\ Synthesized
    /\ num_ports(trace) = 2
    /\ requests_of(trace, 1) = {}
    /\ requests_of(trace, 2) # {}
    /\ model[1].bank.finish = trace.size

----------------------------------------------------------------------------
(* Properties of the problem solve_trace builds (specification SpecConstraints) *)

\* the (port, address) pairs present in a trace
Pairs(t) ==
    {<<x[2], Unwrap(t.trace[x[1]][x[2]])>> :
        x \in {y \in (1 .. Len(t.trace)) \X (1 .. num_ports(t)) :
                  IsSome(t.trace[y[1]][y[2]])}}

\* two traces of one memory with the same ports and the same requests
SameRequests(t, u) ==
    /\ t.size = u.size
    /\ num_ports(t) = num_ports(u)
    /\ Pairs(t) = Pairs(u)

----------------------------------------------------------------------------
(* Properties of TopLevelMemoryLayout (specification SpecTopLayout) *)

\* the addresses of the Ranges from the k-th on, one progression after another
RECURSIVE ConcatFrom(_, _)
ConcatFrom(mems, k) ==
    IF k > Len(mems) THEN << >> ELSE gen_array(mems[k]) \o ConcatFrom(mems, k + 1)

\* C22: get(i) is the i-th address of the concatenation of the Ranges'
\* progressions for i below the total size and None otherwise, and index_of
\* inverts it: index_of(get(i)) = i.
C22_TopGetIsConcatenation ==
    (cmd = "toplayout" /\ pc = "top_get") =>
        LET all == ConcatFrom(layout.mems, 1) IN
        /\ result = IF idx < Len(all) THEN Some(all[idx + 1]) ELSE None
        /\ IsSome(result) => top_index_of(layout, Unwrap(result)) = Some(idx)

----------------------------------------------------------------------------
(* Properties of MemoryLayout::new (specification SpecRange) *)

\* C23: new(start, finish, stride) aborts exactly when start >= finish or
\* stride = 0; otherwise it returns the Range with the given start and finish
\* and the given stride, 1 when the stride is omitted; every Range it returns
\* has start < finish and stride >= 1.
C23_NewChecksItsArguments ==
    (cmd = "range" /\ pc # "start") =>
        /\ pc = "abort" <=> (layout.start >= layout.finish \/ layout.stride = Some(0))
        /\ pc # "abort" =>
            /\ result.start = layout.start
            /\ result.finish = layout.finish
            /\ result.stride = IF layout.stride = None THEN 1 ELSE Unwrap(layout.stride)
            /\ result.start < result.finish
            /\ result.stride >= 1

C23_Witness ==
    /\ cmd = "range"
    /\ pc = "range_ast"
    /\ layout.stride = None
    /\ result = Range(layout.start, layout.finish, 1)

----------------------------------------------------------------------------
(* Properties of parsed descriptions and their validation (SpecVerify) *)

\* C24: a Component built by from_parse(size, width, banks) has the address
\* width of a Component built by from_trace for a trace of that size,
\* bits_required(size), and port_count = |banks|.
C24_ParsedAddressWidthFromSize ==
    (cmd = "verify") =>
        /\ comp.address_bit_width = bits_required(comp.size)
        /\ \A t \in Traces :
              t.size = comp.size =>
                  comp.address_bit_width
                      = Component_from_trace(comp.banks, t).address_bit_width
        /\ comp.port_count = Len(comp.banks)

\* C25: when some present request of the trace sits at a port index beyond
\* the Component's banks, validate returns false and nothing aborts.
C25_ExtraPortsFailValidation ==
    (/\ cmd = "verify"
     /\ pc # "start"
     /\ \E l \in 1 .. Len(trace.trace) :
           \E i \in 1 .. Len(trace.trace[l]) :
               i > Len(comp.banks) /\ IsSome(trace.trace[l][i]))
        => (pc = "done" /\ result.outcome = "failed")

----------------------------------------------------------------------------
(* solve_trace on a trace without lines (specification Spec) *)

\* C26: for a trace that has no lines (num_ports = 0) solve_trace returns a
\* Component with zero banks and port_count 0, and does not abort.
C26_EmptyTraceYieldsEmptyComponent ==
    (cmd = "synthesize" /\ pc # "start" /\ num_ports(trace) = 0) =>
        /\ pc = "done"
        /\ comp.banks = << >>
        /\ comp.port_count = 0

====
